---------------------------- MODULE Spec2Model ----------------------------
(***************************************************************************)
(* PDF_Merger: the file selection, ordering and aggregation pipeline of    *)
(* merge_pdfs.py (merge_pdfs_by_order, merge_specific_pdfs, compress_pdf,  *)
(* compress_folder) and the CompressionWorker summary built on top of it.  *)
(*                                                                         *)
(* Strings (file names, paths) are sequences of Unicode codepoints, so     *)
(* that lower(), endswith(), the `in` test, Path joining and the order     *)
(* used by list.sort() are computed the way Python computes them.          *)
(*                                                                         *)
(* The PyPDF2 calls are modelled by their effect on a page sequence:       *)
(* PdfMerger.append(path) either raises and leaves the merger as it was,   *)
(* or adds all pages of the file, in order, at the end; write(f) stores    *)
(* the merger's page sequence in f.  Environment failures (open or write   *)
(* raising OSError) are nondeterministic choices.                          *)
(*                                                                         *)
(* Spec follows one call of a library function (or of merge_pdfs of        *)
(* main.py) step by step, up to what its caller, main() or a worker        *)
(* thread, does with the result.  SpecGui follows the window: the user's   *)
(* actions, the two worker threads and the completion handlers; there the  *)
(* call a worker wraps counts only by how it ends.  SpecGuiFair adds the   *)
(* scheduling of the threads and of the event loop.                        *)
(***************************************************************************)
EXTENDS Integers, Sequences, FiniteSets, TLC

VARIABLES
    fs,             \* the files: absolute path -> content, DOMAIN = existing files
    fs0,            \* history: the files as they were when the call was made
    dirs,           \* the existing directories (absolute paths)
    call,           \* the entry point invoked and its arguments
    pc,             \* position inside the invoked function
    pdf_files,      \* local pdf_files (names in folder mode, paths in list mode)
    missing_files,  \* local missing_files of merge_specific_pdfs
    idx,            \* 1-based position of the for loop over pdf_files
    merger,         \* the PyPDF2.PdfMerger: made?, page sequence, inputs appended
    skipped,        \* inputs a "Warning: Could not add" line was printed for
    opens,          \* number of open(output_path, 'wb') calls made
    reported,       \* the count printed by "Successfully merged N PDFs" (-1: none)
    results,        \* local results of compress_folder
    totals,         \* local total_original / total_compressed of compress_folder
    ret,            \* return value of the invoked function
    emitted,        \* finished signals emitted by the worker wrapping the call
    exit_code,      \* exit status of the command-line process (-1: has not exited)
    \* the window (PDFMergerGUI), merge tab
    self_output_folder,     \* self.output_folder
    selected_files,         \* self.selected_files
    self_output_path,       \* self.output_path
    output_path_field,      \* text of self.output_path_field
    merge_btn,              \* self.merge_btn is enabled
    progress_bar,           \* self.progress_bar is visible
    merge_workers,          \* the MergeWorker objects alive, self.worker last
    \* the window, compress tab
    compress_input_path,    \* self.compress_input_path
    compress_output_field,  \* text of self.compress_output_field
    compress_file_radio,    \* self.compress_file_radio is checked
    compress_btn,           \* self.compress_btn is enabled
    compress_progress_bar,  \* self.compress_progress_bar is visible
    compress_workers        \* the CompressionWorker objects alive, self.compress_worker last

\* the state of one library call
lib == <<fs, fs0, dirs, call, pc, pdf_files, missing_files, idx, merger, skipped,
         opens, reported, results, totals, ret, emitted>>

\* the state of the window
window == <<self_output_folder, selected_files, self_output_path, output_path_field,
            merge_btn, progress_bar, merge_workers, compress_input_path,
            compress_output_field, compress_file_radio, compress_btn,
            compress_progress_bar, compress_workers>>

\* what a library call leaves alone
front == <<exit_code, window>>

vars == <<lib, front>>

-----------------------------------------------------------------------------
(* Bounds of the model *)

\* largest number of pages of an input PDF
MaxPages == 2
\* largest length of the list handed to merge_specific_pdfs
MaxList == 3
\* largest size in bytes of a PDF handed to the compressor
MaxSize == 2

-----------------------------------------------------------------------------
(* Strings as codepoint sequences *)

\* "1.pdf"
n_1 == <<49, 46, 112, 100, 102>>
\* "10.pdf"
n_10 == <<49, 48, 46, 112, 100, 102>>
\* "2.PDF"
n_2 == <<50, 46, 80, 68, 70>>
\* "o.pdf"
n_o == <<111, 46, 112, 100, 102>>
\* "n.txt"
n_t == <<110, 46, 116, 120, 116>>
\* "/d": the input folder
d_in == <<47, 100>>
\* "/w": the working directory
d_cwd == <<47, 119>>
\* "/o": a separate output folder
d_out == <<47, 111>>
\* "/x": a folder that does not exist
d_none == <<47, 120>>
\* ".pdf"
DotPdf == <<46, 112, 100, 102>>
\* "compressed"
s_compressed == <<99, 111, 109, 112, 114, 101, 115, 115, 101, 100>>
\* "_compressed.pdf"
s_compressed_pdf == <<95>> \o s_compressed \o DotPdf

\* str.lower() on one codepoint (ASCII range)
LowerChar(c) == IF c >= 65 /\ c =< 90 THEN c + 32 ELSE c

\* str.lower()
Lower(s) == [i \in 1..Len(s) |-> LowerChar(s[i])]

\* str.endswith(suffix)
EndsWith(s, suffix) ==
    /\ Len(suffix) =< Len(s)
    /\ SubSeq(s, Len(s) - Len(suffix) + 1, Len(s)) = suffix

\* the folder scans' filter: f.lower().endswith('.pdf')
IsPdfName(f) == EndsWith(Lower(f), DotPdf)

\* Python's str < str: first differing codepoint decides, a proper prefix is less
RECURSIVE StrLess(_, _)
StrLess(a, b) ==
    IF b = <<>> THEN FALSE
    ELSE IF a = <<>> THEN TRUE
    ELSE IF Head(a) # Head(b) THEN Head(a) < Head(b)
    ELSE StrLess(Tail(a), Tail(b))

\* x in list
InList(x, list) == \E i \in 1..Len(list) : list[i] = x

\* list.remove(x): removes the first occurrence
RECURSIVE ListRemove(_, _)
ListRemove(list, x) ==
    IF list = <<>> THEN <<>>
    ELSE IF Head(list) = x THEN Tail(list)
    ELSE <<Head(list)>> \o ListRemove(Tail(list), x)

\* insertion of x into a sorted list, after the elements not greater than it
RECURSIVE InsertSorted(_, _)
InsertSorted(x, list) ==
    IF list = <<>> THEN <<x>>
    ELSE IF StrLess(x, Head(list)) THEN <<x>> \o list
    ELSE <<Head(list)>> \o InsertSorted(x, Tail(list))

\* a sort that is left out: the list stays in listing order
ListSort_Unsorted(list) == list

\* list.sort(): stable, ascending by str comparison
RECURSIVE ListSort(_)
ListSort(list) ==
    IF list = <<>> THEN <<>>
    ELSE InsertSorted(list[Len(list)], ListSort(SubSeq(list, 1, Len(list) - 1)))

-----------------------------------------------------------------------------
(* Paths *)

\* os.path.isabs
IsAbs(p) == Len(p) > 0 /\ p[1] = 47

\* Path(dir) / name, for a relative name
Join(dir, name) == dir \o <<47>> \o name

\* position of the last "/" of p (0: none)
LastSlash(p) ==
    LET S == {i \in 1..Len(p) : p[i] = 47}
    IN  IF S = {} THEN 0 ELSE CHOOSE i \in S : \A j \in S : j =< i

\* Path.parent, of an absolute path
Parent(p) == SubSeq(p, 1, LastSlash(p) - 1)

\* Path.name
BaseName(p) == SubSeq(p, LastSlash(p) + 1, Len(p))

\* Path.stem: the name without its last suffix
Stem(p) ==
    LET n == BaseName(p)
        D == {i \in 2..Len(n) : n[i] = 46}
    IN  IF D = {} THEN n
        ELSE SubSeq(n, 1, (CHOOSE i \in D : \A j \in D : j =< i) - 1)

\* a relative path is resolved against the working directory
Resolve(p) == IF IsAbs(p) THEN p ELSE Join(d_cwd, p)

\* Path.exists
Exists(p) == Resolve(p) \in DOMAIN fs \/ Resolve(p) \in dirs

\* the names os.listdir(dir) returns, as a set
DirEntries(dir) ==
    {BaseName(p) : p \in {q \in DOMAIN fs \cup dirs : Len(q) > 0 /\ Parent(q) = dir}}

\* the orders os.listdir may return the entries in
RECURSIVE Orders(_)
Orders(S) ==
    IF S = {} THEN {<<>>}
    ELSE UNION {{<<x>> \o t : t \in Orders(S \ {x})} : x \in S}

\* the file at p after open(p, 'wb'): created or truncated, 0 bytes
Truncated == [ok |-> FALSE, pages |-> <<>>, size |-> 0, meta |-> FALSE]

\* fs with the file at p set to content c
FsPut(f, p, c) == [q \in DOMAIN f \cup {p} |-> IF q = p THEN c ELSE f[q]]

\* open(p, 'wb') can succeed only inside an existing directory, on a non-directory
CanOpen(p) == Parent(p) \in dirs /\ p \notin dirs

-----------------------------------------------------------------------------
(* Values *)

\* the pages of a k-page PDF stored at path p: page i of that file
PagesOf(p, k) == [i \in 1..k |-> <<p, i>>]

\* a PDF the library can read
PdfFile(p, k, sz, m) == [ok |-> TRUE, pages |-> PagesOf(p, k), size |-> sz, meta |-> m]

\* a file of sz bytes the library cannot read
BadFile(sz) == [ok |-> FALSE, pages |-> <<>>, size |-> sz, meta |-> FALSE]

\* the empty dict returned on failure
NoInfo == [has |-> FALSE, original_size |-> 0, compressed_size |-> 0,
           reduction_percent |-> 0, files_count |-> -1, output_path |-> <<>>]

\* no PdfMerger has been created
NoMerger == [made |-> FALSE, pages |-> <<>>, inputs |-> <<>>]

\* the function has not returned
NoRet == [ok |-> FALSE, info |-> NoInfo, list |-> <<>>]

\* a call record; fields an entry point does not take hold their defaults
Call(op, folder, output, given, exclude, files, level) ==
    [op |-> op, folder |-> folder, output |-> output, out_given |-> given,
     exclude |-> exclude, files |-> files, level |-> level]

-----------------------------------------------------------------------------
(* PyPDF2.PdfMerger *)

\* whether PdfMerger.append(p) can read the file at p
CanRead(p) == Resolve(p) \in DOMAIN fs /\ fs[Resolve(p)].ok

\* an append that drops a path it has already taken
MergerAppend_Dedup(m, p) ==
    IF InList(p, m.inputs) THEN m
    ELSE [m EXCEPT !.pages = @ \o fs[Resolve(p)].pages, !.inputs = Append(@, p)]

\* PdfMerger.append(p) when it does not raise: all pages of p, in order, at the end
MergerAppend(m, p) ==
    [m EXCEPT !.pages = @ \o fs[Resolve(p)].pages, !.inputs = Append(@, p)]

\* the file PdfMerger.write leaves behind
MergedFile(m) ==
    [ok |-> TRUE, pages |-> m.pages, size |-> Len(m.pages) + 1, meta |-> FALSE]

-----------------------------------------------------------------------------
(* merge_pdfs_by_order *)

\* line 33: [f for f in os.listdir(folder_path) if f.lower().endswith('.pdf')]
FolderPdfFiles(listing) == SelectSeq(listing, IsPdfName)

\* an exclusion that is left out
ExcludeOutput_Never(files, output_filename, exclude_output) == files

\* lines 36-37: drop the output file from the inputs
ExcludeOutput(files, output_filename, exclude_output) ==
    IF exclude_output /\ InList(output_filename, files)
    THEN ListRemove(files, output_filename)
    ELSE files

\* lines 65-68: where the merged file goes
FolderOutputPath(folder, output_filename) ==
    IF IsAbs(output_filename) THEN output_filename ELSE Join(folder, output_filename)

\* an emptiness check that is left out
NoInputs_Never(files) == FALSE

\* line 39 (and 237): if not pdf_files
NoInputs(files) == files = <<>>

\* the code after the loop indented into the loop body
LoopDone_Always(i, list) == TRUE

\* the for loop over the list has run out of elements
LoopDone(i, list) == i > Len(list)

\* return False from inside the function
ReturnFalse ==
    /\ ret' = [ok |-> FALSE, info |-> NoInfo, list |-> <<>>]
    /\ pc' = "returned"

\* lines 24-51: check the folder, find, exclude, sort, create the merger
MergeByOrderResolve ==
    /\ UNCHANGED front
    /\ pc = "call"
    /\ call.op = "merge_pdfs_by_order"
    /\ UNCHANGED <<fs, fs0, dirs, call, missing_files, skipped, opens, reported,
                   results, totals, emitted>>
    /\ IF call.folder \notin dirs
       THEN /\ ReturnFalse
            /\ UNCHANGED <<pdf_files, idx, merger>>
       ELSE \E listing \in Orders(DirEntries(call.folder)) :
              LET kept == ExcludeOutput(FolderPdfFiles(listing), call.output, call.exclude)
              IN  IF NoInputs(kept)
                  THEN /\ ReturnFalse
                       /\ pdf_files' = kept
                       /\ UNCHANGED <<idx, merger>>
                  ELSE /\ pdf_files' = ListSort(kept)
                       /\ merger' = [made |-> TRUE, pages |-> <<>>, inputs |-> <<>>]
                       /\ idx' = 1
                       /\ pc' = "append"
                       /\ UNCHANGED ret

\* a loop whose append is not guarded: the exception ends the whole merge
MergeByOrderAppend_Abort ==
    /\ UNCHANGED front
    /\ pc = "append"
    /\ call.op = "merge_pdfs_by_order"
    /\ idx =< Len(pdf_files)
    /\ LET file_path == Join(call.folder, pdf_files[idx])
       IN  IF CanRead(file_path)
           THEN /\ merger' = MergerAppend(merger, file_path)
                /\ idx' = idx + 1
                /\ UNCHANGED <<pc, ret>>
           ELSE /\ ReturnFalse
                /\ UNCHANGED <<merger, idx>>
    /\ UNCHANGED <<fs, fs0, dirs, call, pdf_files, missing_files, skipped, opens,
                   reported, results, totals, emitted>>

\* lines 54-61: one iteration of the loop; an append that raises is skipped
MergeByOrderAppend ==
    /\ UNCHANGED front
    /\ pc = "append"
    /\ call.op = "merge_pdfs_by_order"
    /\ idx =< Len(pdf_files)
    /\ LET file_path == Join(call.folder, pdf_files[idx])
       IN  IF CanRead(file_path)
           THEN /\ merger' = MergerAppend(merger, file_path)
                /\ UNCHANGED skipped
           ELSE /\ skipped' = Append(skipped, pdf_files[idx])
                /\ UNCHANGED merger
    /\ idx' = idx + 1
    /\ UNCHANGED <<fs, fs0, dirs, call, pc, pdf_files, missing_files, opens, reported,
                   results, totals, ret, emitted>>

\* lines 65-69: after the loop, open(output_path, 'wb'); OSError ends the call
MergeByOrderOpen ==
    /\ UNCHANGED front
    /\ pc = "append"
    /\ call.op = "merge_pdfs_by_order"
    /\ LoopDone(idx, pdf_files)
    /\ LET output_path == FolderOutputPath(call.folder, call.output)
       IN  \E ok \in BOOLEAN :
             IF ok /\ CanOpen(output_path)
             THEN /\ fs' = FsPut(fs, output_path, Truncated)
                  /\ opens' = opens + 1
                  /\ pc' = "write"
                  /\ UNCHANGED ret
             ELSE /\ ReturnFalse
                  /\ UNCHANGED <<fs, opens>>
    /\ UNCHANGED <<fs0, dirs, call, pdf_files, missing_files, idx, merger, skipped,
                   reported, results, totals, emitted>>

\* lines 70-75: merger.write, close, report, return True; OSError ends the call
MergeByOrderWrite ==
    /\ UNCHANGED front
    /\ pc = "write"
    /\ call.op = "merge_pdfs_by_order"
    /\ LET output_path == FolderOutputPath(call.folder, call.output)
       IN  \E ok \in BOOLEAN :
             IF ok
             THEN /\ fs' = FsPut(fs, output_path, MergedFile(merger))
                  /\ reported' = Len(pdf_files)
                  /\ ret' = [ok |-> TRUE, info |-> NoInfo, list |-> <<>>]
                  /\ pc' = "returned"
             ELSE /\ ReturnFalse
                  /\ UNCHANGED <<fs, reported>>
    /\ UNCHANGED <<fs0, dirs, call, pdf_files, missing_files, idx, merger, skipped,
                   opens, results, totals, emitted>>

-----------------------------------------------------------------------------
(* merge_specific_pdfs *)

\* a validation that stops at the first missing path
MissingFiles_First(files) ==
    LET missing == SelectSeq(files, LAMBDA p : ~Exists(p))
    IN  IF missing = <<>> THEN <<>> ELSE <<missing[1]>>

\* lines 94-97: the paths of the list that do not exist, in list order
MissingFiles(files) == SelectSeq(files, LAMBDA p : ~Exists(p))

\* lines 93-109: validate every path, then create the merger
MergeSpecificValidate ==
    /\ UNCHANGED front
    /\ pc = "call"
    /\ call.op = "merge_specific_pdfs"
    /\ missing_files' = MissingFiles(call.files)
    /\ IF missing_files' # <<>>
       THEN /\ ReturnFalse
            /\ UNCHANGED <<pdf_files, idx, merger>>
       ELSE /\ pdf_files' = call.files
            /\ merger' = [made |-> TRUE, pages |-> <<>>, inputs |-> <<>>]
            /\ idx' = 1
            /\ pc' = "append"
            /\ UNCHANGED ret
    /\ UNCHANGED <<fs, fs0, dirs, call, skipped, opens, reported, results, totals,
                   emitted>>

\* lines 111-117: one iteration of the loop; an append that raises is skipped
MergeSpecificAppend ==
    /\ UNCHANGED front
    /\ pc = "append"
    /\ call.op = "merge_specific_pdfs"
    /\ idx =< Len(pdf_files)
    /\ IF CanRead(pdf_files[idx])
       THEN /\ merger' = MergerAppend(merger, pdf_files[idx])
            /\ UNCHANGED skipped
       ELSE /\ skipped' = Append(skipped, pdf_files[idx])
            /\ UNCHANGED merger
    /\ idx' = idx + 1
    /\ UNCHANGED <<fs, fs0, dirs, call, pc, pdf_files, missing_files, opens, reported,
                   results, totals, ret, emitted>>

\* lines 120-121: after the loop, open(Path(output_filename), 'wb')
MergeSpecificOpen ==
    /\ UNCHANGED front
    /\ pc = "append"
    /\ call.op = "merge_specific_pdfs"
    /\ LoopDone(idx, pdf_files)
    /\ LET output_path == Resolve(call.output)
       IN  \E ok \in BOOLEAN :
             IF ok /\ CanOpen(output_path)
             THEN /\ fs' = FsPut(fs, output_path, Truncated)
                  /\ opens' = opens + 1
                  /\ pc' = "write"
                  /\ UNCHANGED ret
             ELSE /\ ReturnFalse
                  /\ UNCHANGED <<fs, opens>>
    /\ UNCHANGED <<fs0, dirs, call, pdf_files, missing_files, idx, merger, skipped,
                   reported, results, totals, emitted>>

\* lines 122-126: merger.write, close, return True; OSError ends the call
MergeSpecificWrite ==
    /\ UNCHANGED front
    /\ pc = "write"
    /\ call.op = "merge_specific_pdfs"
    /\ LET output_path == Resolve(call.output)
       IN  \E ok \in BOOLEAN :
             IF ok
             THEN /\ fs' = FsPut(fs, output_path, MergedFile(merger))
                  /\ ret' = [ok |-> TRUE, info |-> NoInfo, list |-> <<>>]
                  /\ pc' = "returned"
             ELSE /\ ReturnFalse
                  /\ UNCHANGED fs
    /\ UNCHANGED <<fs0, dirs, call, pdf_files, missing_files, idx, merger, skipped,
                   opens, reported, results, totals, emitted>>

-----------------------------------------------------------------------------
(* compress_pdf *)

\* what the environment does to one compress_pdf call: whether open(output, 'wb')
\* and writer.write succeed, and the size in bytes of the file written
Envs ==
    {[open |-> FALSE, write |-> FALSE, size |-> 0],
     [open |-> TRUE, write |-> FALSE, size |-> 0]}
    \cup {[open |-> TRUE, write |-> TRUE, size |-> sz] : sz \in 1..MaxSize}

\* lines 155-158: the output path, beside the input when none is given
CompressOutputPath(input_path, output_file, given) ==
    IF ~given
    THEN Join(Parent(input_path), Stem(input_path) \o s_compressed_pdf)
    ELSE Resolve(output_file)

\* line 187: ((original_size - compressed_size) / original_size) * 100, as the
\* whole percentage below it; dividing by 0 raises ZeroDivisionError
ReductionPercent(original_size, compressed_size) ==
    [raised |-> original_size = 0,
     value  |-> IF original_size = 0 THEN 0
                ELSE ((original_size - compressed_size) * 100) \div original_size]

\* lines 164-183: the file the writer leaves: the reader's pages, and the
\* metadata when the level is medium or high
CompressedFile(src, level, sz) ==
    [ok |-> TRUE, pages |-> src.pages, size |-> sz,
     meta |-> src.meta /\ level \in {"medium", "high"}]

\* lines 144-204: compress_pdf on the files f, with environment e; every
\* exception is caught and turned into (False, {})
compress_pdf(f, input_file, output_file, given, level, e) ==
    LET input_path == Resolve(input_file)
        output_path == CompressOutputPath(input_path, output_file, given)
        failed(g) == [ok |-> FALSE, info |-> NoInfo, fs |-> g]
    IN  IF input_path \notin DOMAIN f THEN failed(f)
        ELSE LET original_size == f[input_path].size
                 opened == FsPut(f, output_path, Truncated)
                 written == FsPut(f, output_path,
                                  CompressedFile(f[input_path], level, e.size))
                 compressed_size == written[output_path].size
                 reduction == ReductionPercent(original_size, compressed_size)
             IN  IF ~f[input_path].ok THEN failed(f)
                 ELSE IF ~(e.open /\ Parent(output_path) \in dirs /\ output_path \notin dirs)
                      THEN failed(f)
                 ELSE IF ~e.write THEN failed(opened)
                 ELSE IF reduction.raised THEN failed(written)
                 ELSE [ok |-> TRUE,
                       info |-> [has |-> TRUE,
                                 original_size |-> original_size,
                                 compressed_size |-> compressed_size,
                                 reduction_percent |-> reduction.value,
                                 files_count |-> -1,
                                 output_path |-> output_path],
                       fs |-> written]

\* a direct call of compress_pdf
CompressPdfCall ==
    /\ UNCHANGED front
    /\ pc = "call"
    /\ call.op = "compress_pdf"
    /\ \E e \in Envs :
         LET r == compress_pdf(fs, call.files[1], call.output, call.out_given,
                               call.level, e)
         IN  /\ fs' = r.fs
             /\ ret' = [ok |-> r.ok, info |-> r.info, list |-> <<>>]
    /\ pc' = "returned"
    /\ UNCHANGED <<fs0, dirs, call, pdf_files, missing_files, idx, merger, skipped,
                   opens, reported, results, totals, emitted>>

-----------------------------------------------------------------------------
(* compress_folder *)

\* the directories mkdir(parents=True) makes sure exist: p and its ancestors
WithParents(p) ==
    {SubSeq(p, 1, i - 1) : i \in {j \in 2..Len(p) : p[j] = 47}} \cup {p}

\* lines 226-229: the output folder, folder/compressed when none is given
CompressOutputFolder(folder, output_folder, given) ==
    IF ~given THEN Join(folder, s_compressed) ELSE Resolve(output_folder)

\* the entry of results for one file
ResultEntry(pdf_file, r) ==
    [filename |-> pdf_file, success |-> r.ok, info |-> r.info]

\* lines 218-247: check the folder, create the output folder, find and sort
CompressFolderResolve ==
    /\ UNCHANGED front
    /\ pc = "call"
    /\ call.op = "compress_folder"
    /\ UNCHANGED <<fs, fs0, call, missing_files, merger, skipped, opens, reported,
                   emitted>>
    /\ IF call.folder \notin dirs
       THEN /\ ReturnFalse
            /\ UNCHANGED <<dirs, pdf_files, idx, results, totals>>
       ELSE LET output_path ==
                    CompressOutputFolder(call.folder, call.output, call.out_given)
            IN  \E made \in BOOLEAN :
                  IF ~made \/ output_path \in DOMAIN fs
                  THEN /\ ReturnFalse
                       /\ UNCHANGED <<dirs, pdf_files, idx, results, totals>>
                  ELSE /\ dirs' = dirs \cup WithParents(output_path)
                       /\ \E listing \in Orders(DirEntries(call.folder)
                                                \cup {BaseName(q) : q \in
                                                      {x \in WithParents(output_path) :
                                                       Parent(x) = call.folder}}) :
                            LET found == FolderPdfFiles(listing)
                            IN  IF NoInputs(found)
                                THEN /\ ReturnFalse
                                     /\ pdf_files' = found
                                     /\ UNCHANGED <<idx, results, totals>>
                                ELSE /\ pdf_files' = ListSort(found)
                                     /\ results' = <<>>
                                     /\ totals' = [original |-> 0, compressed |-> 0]
                                     /\ idx' = 1
                                     /\ pc' = "compress"
                                     /\ UNCHANGED ret

\* lines 249-269: one iteration: compress one file, record the outcome
CompressFolderStep ==
    /\ UNCHANGED front
    /\ pc = "compress"
    /\ call.op = "compress_folder"
    /\ idx =< Len(pdf_files)
    /\ LET pdf_file == pdf_files[idx]
           output_path == CompressOutputFolder(call.folder, call.output, call.out_given)
       IN  \E e \in Envs :
             LET r == compress_pdf(fs, Join(call.folder, pdf_file),
                                   Join(output_path, pdf_file), TRUE, call.level, e)
             IN  /\ fs' = r.fs
                 /\ results' = Append(results, ResultEntry(pdf_file, r))
                 /\ totals' = IF r.ok
                              THEN [original |-> totals.original + r.info.original_size,
                                    compressed |-> totals.compressed
                                                   + r.info.compressed_size]
                              ELSE totals
    /\ idx' = idx + 1
    /\ UNCHANGED <<fs0, dirs, call, pc, pdf_files, missing_files, merger, skipped,
                   opens, reported, ret, emitted>>

\* lines 271-282: after the loop, print the summary and return (True, results)
CompressFolderReturn ==
    /\ UNCHANGED front
    /\ pc = "compress"
    /\ call.op = "compress_folder"
    /\ idx > Len(pdf_files)
    /\ ret' = [ok |-> TRUE, info |-> NoInfo, list |-> results]
    /\ pc' = "returned"
    /\ UNCHANGED <<fs, fs0, dirs, call, pdf_files, missing_files, idx, merger, skipped,
                   opens, reported, results, totals, emitted>>

-----------------------------------------------------------------------------
(* The worker threads' run methods, after the wrapped call has returned *)

\* sum of field over the successful entries: sum(r.get(field, 0) ... if r.get('success'))
RECURSIVE SumOriginal(_)
SumOriginal(list) ==
    IF list = <<>> THEN 0
    ELSE (IF Head(list).success THEN Head(list).info.original_size ELSE 0)
         + SumOriginal(Tail(list))

RECURSIVE SumCompressed(_)
SumCompressed(list) ==
    IF list = <<>> THEN 0
    ELSE (IF Head(list).success THEN Head(list).info.compressed_size ELSE 0)
         + SumCompressed(Tail(list))

\* a summary that counts the successful entries only
FolderSummary_CountsSuccesses(list) ==
    LET total_original == SumOriginal(list)
        total_compressed == SumCompressed(list)
    IN  [has |-> TRUE,
         original_size |-> total_original,
         compressed_size |-> total_compressed,
         reduction_percent |->
             IF total_original > 0
             THEN ((total_original - total_compressed) * 100) \div total_original
             ELSE 0,
         files_count |-> Len(SelectSeq(list, LAMBDA r : r.success)),
         output_path |-> <<>>]

\* CompressionWorker.run lines 397-407: the summary of a folder compression
FolderSummary(list) ==
    LET total_original == SumOriginal(list)
        total_compressed == SumCompressed(list)
    IN  [has |-> TRUE,
         original_size |-> total_original,
         compressed_size |-> total_compressed,
         reduction_percent |->
             IF total_original > 0
             THEN ((total_original - total_compressed) * 100) \div total_original
             ELSE 0,
         files_count |-> Len(list),
         output_path |-> <<>>]

\* MergeWorker.run lines 367-370
MergeWorkerEmit ==
    /\ UNCHANGED front
    /\ pc = "returned"
    /\ call.op \in {"merge_pdfs_by_order", "merge_specific_pdfs"}
    /\ emitted' = Append(emitted, [success |-> ret.ok, info |-> NoInfo])
    /\ pc' = "emitted"
    /\ UNCHANGED <<fs, fs0, dirs, call, pdf_files, missing_files, idx, merger, skipped,
                   opens, reported, results, totals, ret>>

\* CompressionWorker.run lines 388-410
CompressionWorkerEmit ==
    /\ UNCHANGED front
    /\ pc = "returned"
    /\ call.op \in {"compress_pdf", "compress_folder"}
    /\ emitted' = Append(emitted,
           [success |-> ret.ok,
            info |-> IF ~ret.ok THEN NoInfo
                     ELSE IF call.op = "compress_pdf" THEN ret.info
                     ELSE FolderSummary(ret.list)])
    /\ pc' = "emitted"
    /\ UNCHANGED <<fs, fs0, dirs, call, pdf_files, missing_files, idx, merger, skipped,
                   opens, reported, results, totals, ret>>

-----------------------------------------------------------------------------
(* main.py: merge_pdfs *)

\* main.py line 8: [f for f in os.listdir(input_folder) if f.endswith('.pdf')]
MainPyPdfFiles(listing) == SelectSeq(listing, LAMBDA f : EndsWith(f, DotPdf))

\* an exception nothing catches ends the call
Raise ==
    /\ pc' = "raised"
    /\ UNCHANGED ret

\* main.py lines 6-9: create the writer, list the folder, filter, sort;
\* os.listdir raises when the folder is not there
MainPyList ==
    /\ UNCHANGED front
    /\ pc = "call"
    /\ call.op = "merge_pdfs"
    /\ UNCHANGED <<fs, fs0, dirs, call, missing_files, skipped, opens, reported,
                   results, totals, emitted>>
    /\ merger' = [made |-> TRUE, pages |-> <<>>, inputs |-> <<>>]
    /\ IF call.folder \notin dirs
       THEN /\ Raise
            /\ UNCHANGED <<pdf_files, idx>>
       ELSE \E listing \in Orders(DirEntries(call.folder)) :
              /\ pdf_files' = ListSort(MainPyPdfFiles(listing))
              /\ idx' = 1
              /\ pc' = "append"
              /\ UNCHANGED ret

\* main.py lines 11-18: one iteration: read the file and add its pages; a file
\* PdfReader cannot read raises
MainPyAdd ==
    /\ UNCHANGED front
    /\ pc = "append"
    /\ call.op = "merge_pdfs"
    /\ idx =< Len(pdf_files)
    /\ LET pdf_path == Join(call.folder, pdf_files[idx])
       IN  IF CanRead(pdf_path)
           THEN /\ merger' = MergerAppend(merger, pdf_path)
                /\ idx' = idx + 1
                /\ UNCHANGED <<pc, ret>>
           ELSE /\ Raise
                /\ UNCHANGED <<merger, idx>>
    /\ UNCHANGED <<fs, fs0, dirs, call, pdf_files, missing_files, skipped, opens,
                   reported, results, totals, emitted>>

\* main.py line 20: after the loop, open(output_filename, 'wb')
MainPyOpen ==
    /\ UNCHANGED front
    /\ pc = "append"
    /\ call.op = "merge_pdfs"
    /\ LoopDone(idx, pdf_files)
    /\ LET output_path == Resolve(call.output)
       IN  \E ok \in BOOLEAN :
             IF ok /\ CanOpen(output_path)
             THEN /\ fs' = FsPut(fs, output_path, Truncated)
                  /\ opens' = opens + 1
                  /\ pc' = "write"
                  /\ UNCHANGED ret
             ELSE /\ Raise
                  /\ UNCHANGED <<fs, opens>>
    /\ UNCHANGED <<fs0, dirs, call, pdf_files, missing_files, idx, merger, skipped,
                   reported, results, totals, emitted>>

\* main.py lines 21-23: pdf_writer.write, close, report; the function returns None
MainPyWrite ==
    /\ UNCHANGED front
    /\ pc = "write"
    /\ call.op = "merge_pdfs"
    /\ LET output_path == Resolve(call.output)
       IN  \E ok \in BOOLEAN :
             IF ok
             THEN /\ fs' = FsPut(fs, output_path, MergedFile(merger))
                  /\ reported' = Len(pdf_files)
                  /\ ret' = [ok |-> TRUE, info |-> NoInfo, list |-> <<>>]
                  /\ pc' = "returned"
             ELSE /\ Raise
                  /\ UNCHANGED <<fs, reported>>
    /\ UNCHANGED <<fs0, dirs, call, pdf_files, missing_files, idx, merger, skipped,
                   opens, results, totals, emitted>>

-----------------------------------------------------------------------------
(* main(): the command line *)

\* the calls main() makes: lines 324 and 333, and lines 341, 344 and 347, which
\* leave exclude_output at its default
FromMain(c) ==
    \/ c.op \in {"compress_pdf", "compress_folder"}
    \/ c.op = "merge_pdfs_by_order" /\ c.exclude

\* lines 324-327 and 333-336: sys.exit(1) if not success; lines 339-347: the
\* value merge_pdfs_by_order returns is dropped and main() returns
MainExitCode(op, success) ==
    IF op \in {"compress_pdf", "compress_folder"} /\ ~success THEN 1 ELSE 0

\* main() after the function it called has returned: the process exits
MainExit ==
    /\ pc = "returned"
    /\ FromMain(call)
    /\ exit_code' = MainExitCode(call.op, ret.ok)
    /\ pc' = "exited"
    /\ UNCHANGED <<fs, fs0, dirs, call, pdf_files, missing_files, idx, merger, skipped,
                   opens, reported, results, totals, ret, emitted>>
    /\ UNCHANGED window

-----------------------------------------------------------------------------
(* PDFMergerGUI: the window as constructed *)

\* "merged_output.pdf"
s_merged_output_pdf ==
    <<109, 101, 114, 103, 101, 100, 95, 111, 117, 116, 112, 117, 116>> \o DotPdf

\* lines 415-421, 494, 506, 535, 582, 594: the fields and widgets after __init__
WindowInit ==
    /\ self_output_folder = <<>>
    /\ selected_files = <<>>
    /\ self_output_path = <<>>
    /\ output_path_field = s_merged_output_pdf
    /\ merge_btn = TRUE
    /\ progress_bar = FALSE
    /\ merge_workers = <<>>
    /\ compress_input_path = <<>>
    /\ compress_output_field = <<>>
    /\ compress_file_radio = TRUE
    /\ compress_btn = TRUE
    /\ compress_progress_bar = FALSE
    /\ compress_workers = <<>>

-----------------------------------------------------------------------------
(* Initial states: one call, on a small file system *)

\* the directories that exist before the call: "/", "/d", "/w"
Dirs0 == {<<>>, d_in, d_cwd}

\* the PDF names a folder may hold beside the output name
InputNames == {n_1, n_10, n_2}

\* the locals before the function has assigned them
InitLocals ==
    /\ fs0 = fs
    /\ dirs = Dirs0
    /\ pc = "call"
    /\ pdf_files = <<>>
    /\ missing_files = <<>>
    /\ idx = 0
    /\ merger = NoMerger
    /\ skipped = <<>>
    /\ opens = 0
    /\ reported = -1
    /\ results = <<>>
    /\ totals = [original |-> 0, compressed |-> 0]
    /\ ret = NoRet
    /\ emitted = <<>>
    /\ exit_code = -1
    /\ WindowInit

\* contents of a file at p handed to a merge: unreadable, or 1..MaxPages pages
MergeContents(p) == {BadFile(1)} \cup {PdfFile(p, k, k + 1, TRUE) : k \in 1..MaxPages}

\* contents of a file at p handed to the compressor: empty, or a PDF of 1..MaxSize bytes
CompressContents(p) == {BadFile(0)} \cup {PdfFile(p, 1, sz, TRUE) : sz \in 1..MaxSize}

\* the contents a file at p may have when handed to a merge (for_merge) or to
\* the compressor
Contents(for_merge, p) == IF for_merge THEN MergeContents(p) ELSE CompressContents(p)

\* the file systems with some of the names present in "/d"
FolderFiles(names, for_merge) ==
    UNION {{f \in [{Join(d_in, n) : n \in S}
                   -> UNION {Contents(for_merge, Join(d_in, n)) : n \in S}] :
              \A n \in S : f[Join(d_in, n)] \in Contents(for_merge, Join(d_in, n))}
           : S \in SUBSET names}

\* all lists of length at most n over S
ListsUpTo(S, n) == UNION {[1..k -> S] : k \in 0..n}

InitMergeFolder ==
    /\ \E f \in FolderFiles(InputNames, TRUE) :
       \E old \in BOOLEAN :
       \E txt \in BOOLEAN :
         LET g == IF old THEN FsPut(f, Join(d_in, n_o), PdfFile(Join(d_in, n_o), 1, 2, TRUE))
                  ELSE f
         IN  fs = IF txt THEN FsPut(g, Join(d_in, n_t), BadFile(1)) ELSE g
    /\ \E output \in {n_o, Join(d_in, n_o), Join(d_cwd, n_o)} :
       \E exclude \in BOOLEAN :
         call = Call("merge_pdfs_by_order", d_in, output, TRUE, exclude, <<>>, "medium")
    /\ InitLocals

InitMergeNoFolder ==
    /\ fs = FsPut(<<>>, Join(d_cwd, n_1), PdfFile(Join(d_cwd, n_1), 1, 2, TRUE))
    /\ call = Call("merge_pdfs_by_order", d_none, n_o, TRUE, TRUE, <<>>, "medium")
    /\ InitLocals

InitMergeSpecific ==
    /\ \E f \in FolderFiles({n_1, n_10}, TRUE) :
       \E third \in BOOLEAN :
         fs = IF third THEN FsPut(f, Join(d_in, n_2), PdfFile(Join(d_in, n_2), 1, 2, TRUE))
              ELSE f
    /\ \E files \in ListsUpTo({Join(d_in, n) : n \in InputNames}, MaxList) :
       \E output \in {n_o, Join(d_in, n_o)} :
         call = Call("merge_specific_pdfs", <<>>, output, TRUE, FALSE, files, "medium")
    /\ InitLocals

InitCompressFile ==
    /\ fs \in FolderFiles({n_1, n_2}, FALSE)
    /\ \E input \in {Join(d_in, n_1), Join(d_in, n_2)} :
       \E given \in BOOLEAN :
       \E level \in {"low", "medium", "high"} :
         call = Call("compress_pdf", <<>>, IF given THEN n_o ELSE <<>>, given, FALSE,
                     <<input>>, level)
    /\ InitLocals

InitCompressFolder ==
    /\ \E f \in FolderFiles(InputNames, FALSE) :
         fs = FsPut(f, Join(d_in, n_t), BadFile(1))
    /\ \E folder \in {d_in, d_none} :
       \E given \in BOOLEAN :
       \E level \in {"low", "medium", "high"} :
         call = Call("compress_folder", folder, IF given THEN d_out ELSE <<>>, given,
                     FALSE, <<>>, level)
    /\ InitLocals

\* main.py: merge_pdfs(input_folder, output_filename), the output in the working
\* directory as at main.py lines 26-28
InitMainPy ==
    /\ fs \in FolderFiles({n_1, n_2}, TRUE)
    /\ \E folder \in {d_in, d_none} :
         call = Call("merge_pdfs", folder, n_o, TRUE, FALSE, <<>>, "medium")
    /\ InitLocals

Init ==
    \/ InitMergeFolder
    \/ InitMergeNoFolder
    \/ InitMergeSpecific
    \/ InitCompressFile
    \/ InitCompressFolder
    \/ InitMainPy

Next ==
    \/ MergeByOrderResolve
    \/ MergeByOrderAppend
    \/ MergeByOrderOpen
    \/ MergeByOrderWrite
    \/ MergeSpecificValidate
    \/ MergeSpecificAppend
    \/ MergeSpecificOpen
    \/ MergeSpecificWrite
    \/ CompressPdfCall
    \/ CompressFolderResolve
    \/ CompressFolderStep
    \/ CompressFolderReturn
    \/ MergeWorkerEmit
    \/ CompressionWorkerEmit
    \/ MainExit
    \/ MainPyList
    \/ MainPyAdd
    \/ MainPyOpen
    \/ MainPyWrite

Spec == Init /\ [][Next]_vars

-----------------------------------------------------------------------------
(* PDFMergerGUI: the window, its handlers and its worker threads.
   The library call a worker wraps is followed step by step under Spec; here a
   worker's run keeps of that call only how it ended. *)

\* most worker objects of one class the model keeps alive at once
MaxWorkers == 2

\* "o": a name typed into a save dialog without its extension
n_o_stem == <<111>>

\* how the call a worker wraps can end: it returns True, returns False, raises
Outcomes == {"true", "false", "raised"}

\* lines 654-655, 675-676, 741-742: if not path.lower().endswith('.pdf'): path += '.pdf'
EnsurePdf(path) == IF IsPdfName(path) THEN path ELSE path \o DotPdf

\* lines 354-358 and 693-695: a MergeWorker, finished connected to on_merge_finished
MergeWorker(files, output_filename, merge_mode) ==
    [pdf_files |-> files, output_filename |-> output_filename, merge_mode |-> merge_mode,
     state |-> "started", signals |-> <<>>, connected |-> 1, handled |-> 0]

\* lines 379-384 and 785-787: a CompressionWorker, finished connected to
\* on_compress_finished
CompressionWorker(input_path, output_path, compression_level, compress_mode) ==
    [input_path |-> input_path, output_path |-> output_path,
     compression_level |-> compression_level, compress_mode |-> compress_mode,
     state |-> "started", signals |-> <<>>, connected |-> 1, handled |-> 0]

\* slot calls the worker's signals give rise to
Deliveries(w) == Len(w.signals) * w.connected

\* the worker's run has not returned, or a slot call for it is still queued
InFlight(w) == w.state = "started" \/ w.handled < Deliveries(w)

\* self.worker and self.compress_worker: the object last stored
HasWorker == merge_workers # <<>>

worker == merge_workers[Len(merge_workers)]

HasCompressWorker == compress_workers # <<>>

compress_worker == compress_workers[Len(compress_workers)]

\* lines 611-616: select_folder; a cancelled dialog returns ""
SelectFolder ==
    /\ \E folder \in {<<>>, d_in} :
         self_output_folder' = IF folder # <<>> THEN folder ELSE self_output_folder
    /\ UNCHANGED <<selected_files, self_output_path, output_path_field, merge_btn,
                   progress_bar, merge_workers, compress_input_path,
                   compress_output_field, compress_file_radio, compress_btn,
                   compress_progress_bar, compress_workers>>
    /\ UNCHANGED <<lib, exit_code>>

\* lines 628-638: add_files: the paths chosen that are not in the list yet
AddFiles ==
    /\ \E files \in {<<>>, <<Join(d_in, n_1)>>} :
         selected_files' = selected_files
                           \o SelectSeq(files, LAMBDA f : ~InList(f, selected_files))
    /\ UNCHANGED <<self_output_folder, self_output_path, output_path_field, merge_btn,
                   progress_bar, merge_workers, compress_input_path,
                   compress_output_field, compress_file_radio, compress_btn,
                   compress_progress_bar, compress_workers>>
    /\ UNCHANGED <<lib, exit_code>>

\* lines 640-643: clear_files
ClearFiles ==
    /\ selected_files' = <<>>
    /\ UNCHANGED <<self_output_folder, self_output_path, output_path_field, merge_btn,
                   progress_bar, merge_workers, compress_input_path,
                   compress_output_field, compress_file_radio, compress_btn,
                   compress_progress_bar, compress_workers>>
    /\ UNCHANGED <<lib, exit_code>>

\* lines 645-658: select_output_path: the save dialog returns an absolute path
SelectOutputPath ==
    /\ \E file_path \in {<<>>, Join(d_in, n_o), Join(d_in, n_o_stem)} :
         IF file_path # <<>>
         THEN /\ self_output_path' = EnsurePdf(file_path)
              /\ output_path_field' = EnsurePdf(file_path)
         ELSE UNCHANGED <<self_output_path, output_path_field>>
    /\ UNCHANGED <<self_output_folder, selected_files, merge_btn, progress_bar,
                   merge_workers, compress_input_path, compress_output_field,
                   compress_file_radio, compress_btn, compress_progress_bar,
                   compress_workers>>
    /\ UNCHANGED <<lib, exit_code>>

\* a start that leaves the button enabled
StartMergeWorker_ButtonEnabled(files, output_filename, mode) ==
    /\ Len(SelectSeq(merge_workers, InFlight)) < MaxWorkers
    /\ merge_btn' = merge_btn
    /\ progress_bar' = TRUE
    /\ merge_workers' = Append(SelectSeq(merge_workers, InFlight),
                               MergeWorker(files, output_filename, mode))

\* lines 688-696: start_merge_worker; a worker that self.worker replaces lives on
\* while it is in flight
StartMergeWorker(files, output_filename, mode) ==
    /\ Len(SelectSeq(merge_workers, InFlight)) < MaxWorkers
    /\ merge_btn' = FALSE
    /\ progress_bar' = TRUE
    /\ merge_workers' = Append(SelectSeq(merge_workers, InFlight),
                               MergeWorker(files, output_filename, mode))

\* lines 666-686: merge_pdfs, the slot of merge_btn.clicked, which an enabled
\* button alone emits
MergePdfs ==
    /\ merge_btn
    /\ LET chosen == IF self_output_path # <<>> THEN self_output_path
                     ELSE output_path_field
       IN  IF chosen = <<>>
           THEN UNCHANGED <<merge_btn, progress_bar, merge_workers>>
           ELSE IF self_output_folder # <<>>
           THEN StartMergeWorker(self_output_folder, EnsurePdf(chosen), "folder")
           ELSE IF selected_files # <<>>
           THEN StartMergeWorker(selected_files, EnsurePdf(chosen), "files")
           ELSE UNCHANGED <<merge_btn, progress_bar, merge_workers>>
    /\ UNCHANGED <<self_output_folder, selected_files, self_output_path,
                   output_path_field, compress_input_path, compress_output_field,
                   compress_file_radio, compress_btn, compress_progress_bar,
                   compress_workers>>
    /\ UNCHANGED <<lib, exit_code>>

\* a run without its except clause
MergeRunSignals_NoExcept(outcome) ==
    IF outcome = "true" THEN <<[success |-> TRUE, message |-> "Successfully merged PDFs"]>>
    ELSE IF outcome = "false" THEN <<[success |-> FALSE, message |-> "Failed to merge PDFs"]>>
    ELSE <<>>

\* lines 367-372: the finished signals one run emits, by how the call ended
MergeRunSignals(outcome) ==
    IF outcome = "true" THEN <<[success |-> TRUE, message |-> "Successfully merged PDFs"]>>
    ELSE IF outcome = "false" THEN <<[success |-> FALSE, message |-> "Failed to merge PDFs"]>>
    ELSE <<[success |-> FALSE, message |-> "Error"]>>

\* lines 360-372: MergeWorker.run in its thread
MergeWorkerRun ==
    /\ \E i \in 1..Len(merge_workers) :
       \E outcome \in Outcomes :
         /\ merge_workers[i].state = "started"
         /\ merge_workers' =
                [merge_workers EXCEPT ![i] =
                    [@ EXCEPT !.state = "done",
                              !.signals = @ \o MergeRunSignals(outcome)]]
    /\ UNCHANGED <<self_output_folder, selected_files, self_output_path,
                   output_path_field, merge_btn, progress_bar, compress_input_path,
                   compress_output_field, compress_file_radio, compress_btn,
                   compress_progress_bar, compress_workers>>
    /\ UNCHANGED <<lib, exit_code>>

\* a handler that tidies up only after a success
OnMergeFinished_OnlyOnSuccess ==
    /\ \E i \in 1..Len(merge_workers) :
         LET w == merge_workers[i]
         IN  /\ w.handled < Deliveries(w)
             /\ merge_workers' = [merge_workers EXCEPT ![i].handled = @ + 1]
             /\ IF w.signals[(w.handled \div w.connected) + 1].success
                THEN progress_bar' = FALSE /\ merge_btn' = TRUE
                ELSE UNCHANGED <<progress_bar, merge_btn>>
    /\ UNCHANGED <<self_output_folder, selected_files, self_output_path,
                   output_path_field, compress_input_path, compress_output_field,
                   compress_file_radio, compress_btn, compress_progress_bar,
                   compress_workers>>
    /\ UNCHANGED <<lib, exit_code>>

\* lines 698-707: on_merge_finished, called by the event loop once for each
\* queued signal; the message box and the log are output only
OnMergeFinished ==
    /\ \E i \in 1..Len(merge_workers) :
         LET w == merge_workers[i]
         IN  /\ w.handled < Deliveries(w)
             /\ merge_workers' = [merge_workers EXCEPT ![i].handled = @ + 1]
             /\ progress_bar' = FALSE
             /\ merge_btn' = TRUE
    /\ UNCHANGED <<self_output_folder, selected_files, self_output_path,
                   output_path_field, compress_input_path, compress_output_field,
                   compress_file_radio, compress_btn, compress_progress_bar,
                   compress_workers>>
    /\ UNCHANGED <<lib, exit_code>>

\* lines 533-540: the user checks the other radio button of the compress tab
ToggleCompressMode ==
    /\ compress_file_radio' = ~compress_file_radio
    /\ UNCHANGED <<self_output_folder, selected_files, self_output_path,
                   output_path_field, merge_btn, progress_bar, merge_workers,
                   compress_input_path, compress_output_field, compress_btn,
                   compress_progress_bar, compress_workers>>
    /\ UNCHANGED <<lib, exit_code>>

\* lines 710-728: select_compress_input: a file or a folder, by the radio button
SelectCompressInput ==
    /\ \E chosen \in {<<>>, IF compress_file_radio THEN Join(d_in, n_1) ELSE d_in} :
         compress_input_path' = IF chosen # <<>> THEN chosen ELSE compress_input_path
    /\ UNCHANGED <<self_output_folder, selected_files, self_output_path,
                   output_path_field, merge_btn, progress_bar, merge_workers,
                   compress_output_field, compress_file_radio, compress_btn,
                   compress_progress_bar, compress_workers>>
    /\ UNCHANGED <<lib, exit_code>>

\* lines 730-750: select_compress_output: a file or a folder, by the radio button
SelectCompressOutput ==
    /\ \E chosen \in {<<>>, IF compress_file_radio THEN Join(d_in, n_o_stem) ELSE d_out} :
         compress_output_field' =
             IF chosen = <<>> THEN compress_output_field
             ELSE IF compress_file_radio THEN EnsurePdf(chosen)
             ELSE chosen
    /\ UNCHANGED <<self_output_folder, selected_files, self_output_path,
                   output_path_field, merge_btn, progress_bar, merge_workers,
                   compress_input_path, compress_file_radio, compress_btn,
                   compress_progress_bar, compress_workers>>
    /\ UNCHANGED <<lib, exit_code>>

\* lines 779-788: start_compress_worker
StartCompressWorker(input_path, output_path, compression_level, mode) ==
    /\ Len(SelectSeq(compress_workers, InFlight)) < MaxWorkers
    /\ compress_btn' = FALSE
    /\ compress_progress_bar' = TRUE
    /\ compress_workers' =
           Append(SelectSeq(compress_workers, InFlight),
                  CompressionWorker(input_path, output_path, compression_level, mode))

\* lines 759-777: compress_pdfs, the slot of compress_btn.clicked; the level is
\* the combo box's, left at "Medium" (line 567); an empty output field is None
CompressPdfs ==
    /\ compress_btn
    /\ IF compress_input_path = <<>>
       THEN UNCHANGED <<compress_btn, compress_progress_bar, compress_workers>>
       ELSE StartCompressWorker(compress_input_path, compress_output_field, "medium",
                                IF compress_file_radio THEN "file" ELSE "folder")
    /\ UNCHANGED <<self_output_folder, selected_files, self_output_path,
                   output_path_field, merge_btn, progress_bar, merge_workers,
                   compress_input_path, compress_output_field, compress_file_radio>>
    /\ UNCHANGED <<lib, exit_code>>

\* lines 388-412: the finished signals one run emits, by its mode and by how the
\* call ended
CompressRunSignals(compress_mode, outcome) ==
    IF outcome = "true"
    THEN <<[success |-> TRUE,
            message |-> IF compress_mode = "file" THEN "Compression completed successfully!"
                        ELSE "Successfully compressed files!"]>>
    ELSE IF outcome = "false"
    THEN <<[success |-> FALSE,
            message |-> IF compress_mode = "file" THEN "Failed to compress PDF"
                        ELSE "Failed to compress folder"]>>
    ELSE <<[success |-> FALSE, message |-> "Error"]>>

\* lines 386-412: CompressionWorker.run in its thread
CompressionWorkerRun ==
    /\ \E i \in 1..Len(compress_workers) :
       \E outcome \in Outcomes :
         /\ compress_workers[i].state = "started"
         /\ compress_workers' =
                [compress_workers EXCEPT ![i] =
                    [@ EXCEPT !.state = "done",
                              !.signals = @ \o CompressRunSignals(
                                                   compress_workers[i].compress_mode,
                                                   outcome)]]
    /\ UNCHANGED <<self_output_folder, selected_files, self_output_path,
                   output_path_field, merge_btn, progress_bar, merge_workers,
                   compress_input_path, compress_output_field, compress_file_radio,
                   compress_btn, compress_progress_bar>>
    /\ UNCHANGED <<lib, exit_code>>

\* lines 790-810: on_compress_finished; what follows line 793 is output only
OnCompressFinished ==
    /\ \E i \in 1..Len(compress_workers) :
         LET w == compress_workers[i]
         IN  /\ w.handled < Deliveries(w)
             /\ compress_workers' = [compress_workers EXCEPT ![i].handled = @ + 1]
             /\ compress_progress_bar' = FALSE
             /\ compress_btn' = TRUE
    /\ UNCHANGED <<self_output_folder, selected_files, self_output_path,
                   output_path_field, merge_btn, progress_bar, merge_workers,
                   compress_input_path, compress_output_field, compress_file_radio>>
    /\ UNCHANGED <<lib, exit_code>>

\* lines 812-817: run_gui: the window is shown on a folder "/d" holding "1.pdf"
\* and "2.PDF"; no library call is followed
InitGui ==
    /\ fs = [p \in {Join(d_in, n_1), Join(d_in, n_2)} |-> PdfFile(p, 1, 2, TRUE)]
    /\ call = Call("run_gui", <<>>, <<>>, FALSE, FALSE, <<>>, "medium")
    /\ InitLocals

NextGui ==
    \/ SelectFolder
    \/ AddFiles
    \/ ClearFiles
    \/ SelectOutputPath
    \/ MergePdfs
    \/ MergeWorkerRun
    \/ OnMergeFinished
    \/ ToggleCompressMode
    \/ SelectCompressInput
    \/ SelectCompressOutput
    \/ CompressPdfs
    \/ CompressionWorkerRun
    \/ OnCompressFinished

SpecGui == InitGui /\ [][NextGui]_vars

\* the worker threads are scheduled and the calls they wrap end; the event loop
\* of the window calls the slot of every queued signal
SpecGuiFair ==
    /\ SpecGui
    /\ WF_vars(MergeWorkerRun)
    /\ WF_vars(OnMergeFinished)
    /\ WF_vars(CompressionWorkerRun)
    /\ WF_vars(OnCompressFinished)

-----------------------------------------------------------------------------
(* Vocabulary of the properties *)

IsFolderMerge == call.op = "merge_pdfs_by_order"

IsListMerge == call.op = "merge_specific_pdfs"

IsMerge == IsFolderMerge \/ IsListMerge

\* the invoked function has returned
Finished == pc \in {"returned", "emitted", "exited"}

\* the absolute path of input x of the running merge
InputPath(x) == IF IsFolderMerge THEN Join(call.folder, x) ELSE Resolve(x)

\* the absolute paths of a list of inputs
InputPaths(list) == [i \in 1..Len(list) |-> InputPath(list[i])]

\* where the running merge writes
MergeOutputPath ==
    IF IsFolderMerge THEN FolderOutputPath(call.folder, call.output)
    ELSE Resolve(call.output)

\* the file at p could be read when the call was made
Readable0(p) == p \in DOMAIN fs0 /\ fs0[p].ok

\* the pages of the readable files among paths, file after file
RECURSIVE ConcatPages(_)
ConcatPages(paths) ==
    IF paths = <<>> THEN <<>>
    ELSE (IF Readable0(Head(paths)) THEN fs0[Head(paths)].pages ELSE <<>>)
         \o ConcatPages(Tail(paths))

\* the names in directory dir when the call was made
Names0(dir) == {BaseName(p) : p \in {q \in DOMAIN fs0 : Parent(q) = dir}}

\* those of them that are PDFs by name
PdfNames0(dir) == {n \in Names0(dir) : IsPdfName(n)}

\* the elements of a list
Elems(list) == {list[i] : i \in 1..Len(list)}

\* the inputs the loop has gone through so far
Processed == SubSeq(pdf_files, 1, idx - 1)

-----------------------------------------------------------------------------
(* C1 *)

\* C1: a merge that succeeds leaves at its output path exactly the pages of the
\* readable inputs, input after input in list order and each file's pages in
\* their own order; nothing is filtered or deduplicated (a path listed twice
\* gives its pages twice), and one input alone gives that input's pages.
C1_MergeConcatenatesInputs ==
    (IsMerge /\ Finished /\ ret.ok) =>
        LET inputs == InputPaths(IF IsFolderMerge THEN pdf_files ELSE call.files)
        IN  /\ MergeOutputPath \in DOMAIN fs
            /\ fs[MergeOutputPath].ok
            /\ fs[MergeOutputPath].pages = ConcatPages(inputs)
            /\ (Len(inputs) = 1 /\ Readable0(inputs[1]))
                   => fs[MergeOutputPath].pages = fs0[inputs[1]].pages

\* a list merge of <<a, b, a>> has returned True with a's pages at both ends
C1_Witness ==
    /\ IsListMerge /\ Finished /\ ret.ok
    /\ Len(call.files) = 3
    /\ call.files[1] = call.files[3]
    /\ call.files[1] # call.files[2]
    /\ \A i \in 1..3 : Readable0(Resolve(call.files[i]))
    /\ Len(fs0[Resolve(call.files[1])].pages) = 2
    /\ fs[MergeOutputPath].pages =
           fs0[Resolve(call.files[1])].pages \o fs0[Resolve(call.files[2])].pages
           \o fs0[Resolve(call.files[1])].pages

-----------------------------------------------------------------------------
(* C2 *)

-----------------------------------------------------------------------------
(* C3 *)

\* C3: an input that cannot be read gets a warning and is skipped, and nothing
\* else happens: the loop goes on to every later input (a merge that fails after
\* creating its merger has gone through the whole list first), the inputs taken
\* are the readable ones in order, and when the output has been written it holds
\* the pages of the readable inputs and the merge returns True.
C3_UnreadableInputSkipped ==
    (IsMerge /\ merger.made) =>
        /\ skipped = SelectSeq(Processed, LAMBDA x : ~Readable0(InputPath(x)))
        /\ merger.inputs = SelectSeq(InputPaths(Processed), Readable0)
        /\ (Finished /\ ~ret.ok) => idx = Len(pdf_files) + 1
        /\ (Finished /\ MergeOutputPath \in DOMAIN fs /\ fs[MergeOutputPath].ok
            /\ opens = 1)
               => /\ ret.ok
                  /\ fs[MergeOutputPath].pages = ConcatPages(InputPaths(pdf_files))

\* a merge of three inputs, the second unreadable, has returned True
C3_Witness ==
    /\ IsMerge /\ Finished /\ ret.ok
    /\ Len(pdf_files) = 3
    /\ skipped = <<pdf_files[2]>>
    /\ merger.inputs = <<InputPath(pdf_files[1]), InputPath(pdf_files[3])>>
    /\ fs[MergeOutputPath].pages =
           fs0[InputPath(pdf_files[1])].pages \o fs0[InputPath(pdf_files[3])].pages

-----------------------------------------------------------------------------
(* C4 *)

\* C4: the count a folder merge reports ("Successfully merged N PDFs") is the
\* number of inputs that went into the output.
C4_ReportedCountIsIncluded ==
    (IsFolderMerge /\ Finished /\ ret.ok) => reported = Len(merger.inputs)

-----------------------------------------------------------------------------
(* C5 *)

\* the paths of the list that did not exist when the call was made
Missing0 == SelectSeq(call.files, LAMBDA p : Resolve(p) \notin DOMAIN fs0)

\* C5: a list merge with a missing path has failed as soon as it has validated:
\* it returns False, its error lists all the missing paths in list order and
\* nothing else, no merger was created, no input appended, no output opened and
\* no file touched.
C5_AllMissingFilesReported ==
    (IsListMerge /\ pc # "call" /\ Missing0 # <<>>) =>
        /\ Finished
        /\ ~ret.ok
        /\ missing_files = Missing0
        /\ ~merger.made
        /\ merger.inputs = <<>>
        /\ opens = 0
        /\ fs = fs0

\* a list of three whose first and last paths are missing and differ
C5_Witness ==
    /\ IsListMerge /\ Finished
    /\ Len(call.files) = 3
    /\ Resolve(call.files[2]) \in DOMAIN fs0
    /\ call.files[1] # call.files[3]
    /\ missing_files = <<call.files[1], call.files[3]>>

-----------------------------------------------------------------------------
(* C6 *)

\* the PDF names of the folder that are left after the exclusion
Remaining0 ==
    PdfNames0(call.folder) \ (IF call.exclude THEN {call.output} ELSE {})

\* C6: a folder merge on an existing folder with no PDF, or with the excluded
\* output file as its only PDF, returns False without creating a merger and
\* without opening or writing any file.
C6_NoPdfFails ==
    (IsFolderMerge /\ pc # "call" /\ call.folder \in Dirs0 /\ Remaining0 = {}) =>
        /\ Finished
        /\ ~ret.ok
        /\ ~merger.made
        /\ opens = 0
        /\ fs = fs0

\* the folder held "o.pdf" and "n.txt", the output name was "o.pdf", excluded
C6_Witness ==
    /\ IsFolderMerge /\ Finished /\ ~ret.ok
    /\ call.exclude
    /\ call.output = n_o
    /\ Names0(call.folder) = {n_o, n_t}

-----------------------------------------------------------------------------
(* C7 *)

\* C7: when the output filename is one of the folder's PDF names, exclude_output
\* removes exactly that entry and keeps every other PDF; without exclude_output
\* the entry stays, is appended in its turn and its pages are in the output.
C7_ExcludeOutputRemovesOneEntry ==
    (/\ IsFolderMerge /\ pc # "call" /\ call.folder \in Dirs0
     /\ call.output \in PdfNames0(call.folder)) =>
        IF call.exclude
        THEN /\ Elems(pdf_files) = PdfNames0(call.folder) \ {call.output}
             /\ Len(pdf_files) = Cardinality(PdfNames0(call.folder)) - 1
        ELSE /\ Elems(pdf_files) = PdfNames0(call.folder)
             /\ Len(pdf_files) = Cardinality(PdfNames0(call.folder))
             /\ (idx > Len(pdf_files) /\ Readable0(Join(call.folder, call.output)))
                    => InList(Join(call.folder, call.output), merger.inputs)
             /\ (Finished /\ ret.ok)
                    => fs[MergeOutputPath].pages = ConcatPages(InputPaths(pdf_files))

\* "o.pdf" was in the folder with three other PDFs and only those three were merged
C7_Witness ==
    /\ IsFolderMerge /\ Finished /\ ret.ok
    /\ call.exclude
    /\ call.output = n_o
    /\ PdfNames0(call.folder) = {n_1, n_10, n_2, n_o}
    /\ pdf_files = <<n_1, n_10, n_2>>

-----------------------------------------------------------------------------
(* C8 *)

\* C8: a merge opens its output at most once, and only when the loop has gone
\* through every input (each appended or skipped); until then no file has
\* changed, and afterwards only the output file has; a merge whose write failed
\* returns False.
C8_OutputWrittenOnceAfterInputs ==
    IsMerge =>
        /\ opens =< 1
        /\ opens = 1 =>
               /\ merger.made
               /\ idx = Len(pdf_files) + 1
               /\ Len(merger.inputs) + Len(skipped) = Len(pdf_files)
               /\ MergeOutputPath \in DOMAIN fs
        /\ opens = 0 => fs = fs0
        /\ \A p \in DOMAIN fs \ {MergeOutputPath} : p \in DOMAIN fs0 /\ fs[p] = fs0[p]
        /\ pc = "write" => opens = 1 /\ fs[MergeOutputPath] = Truncated
        /\ (Finished /\ opens = 1 /\ ~fs[MergeOutputPath].ok) => ~ret.ok

\* a merge of two inputs opened its output after both, the write failed, it returned False
C8_Witness ==
    /\ IsMerge /\ Finished /\ ~ret.ok
    /\ opens = 1
    /\ Len(pdf_files) = 2
    /\ idx = 3
    /\ fs[MergeOutputPath] = Truncated

-----------------------------------------------------------------------------
(* C9 *)

IsCompressFolder == call.op = "compress_folder"

\* where compress_folder puts the compressed copy of name
CompressedPath(name) ==
    Join(CompressOutputFolder(call.folder, call.output, call.out_given), name)

\* the original sizes of the successful entries, from the files themselves
RECURSIVE OriginalBytes(_)
OriginalBytes(list) ==
    IF list = <<>> THEN 0
    ELSE (IF Head(list).success THEN fs0[Join(call.folder, Head(list).filename)].size
          ELSE 0)
         + OriginalBytes(Tail(list))

\* the sizes of the compressed copies of the successful entries
RECURSIVE CompressedBytes(_)
CompressedBytes(list) ==
    IF list = <<>> THEN 0
    ELSE (IF Head(list).success THEN fs[CompressedPath(Head(list).filename)].size
          ELSE 0)
         + CompressedBytes(Tail(list))

\* C9: compress_folder on an existing folder with N >= 1 PDFs, its output folder
\* created, returns True and a list of exactly N entries in ascending filename
\* order, whatever failed on the way: an entry is success:true with the sizes of
\* its input and of its compressed copy, or success:false, which it is for every
\* unreadable input; the worker's summary has files_count = N and totals that
\* are the sums over the successful entries only.
C9_CompressFolderProcessesAll ==
    (/\ IsCompressFolder /\ Finished
     /\ call.folder \in Dirs0
     /\ PdfNames0(call.folder) # {}
     /\ CompressOutputFolder(call.folder, call.output, call.out_given) \in dirs) =>
        /\ ret.ok
        /\ Len(ret.list) = Cardinality(PdfNames0(call.folder))
        /\ {ret.list[i].filename : i \in 1..Len(ret.list)} = PdfNames0(call.folder)
        /\ \A i \in 1..(Len(ret.list) - 1) :
               StrLess(ret.list[i].filename, ret.list[i + 1].filename)
        /\ \A i \in 1..Len(ret.list) :
               LET r == ret.list[i]
                   input == Join(call.folder, r.filename)
               IN  /\ ~Readable0(input) => ~r.success
                   /\ r.success =>
                          /\ CompressedPath(r.filename) \in DOMAIN fs
                          /\ fs[CompressedPath(r.filename)].ok
                          /\ r.info.original_size = fs0[input].size
                          /\ r.info.compressed_size = fs[CompressedPath(r.filename)].size
        /\ pc = "emitted" =>
               /\ Len(emitted) = 1
               /\ emitted[1].success
               /\ emitted[1].info.files_count = Cardinality(PdfNames0(call.folder))
               /\ emitted[1].info.original_size = OriginalBytes(ret.list)
               /\ emitted[1].info.compressed_size = CompressedBytes(ret.list)

\* three PDFs, the second one failed: three entries, totals over the other two
C9_Witness ==
    /\ IsCompressFolder /\ pc = "emitted"
    /\ Len(ret.list) = 3
    /\ ret.list[1].success /\ ~ret.list[2].success /\ ret.list[3].success
    /\ emitted[1].info.files_count = 3
    /\ emitted[1].info.original_size =
           ret.list[1].info.original_size + ret.list[3].info.original_size
    /\ ret.list[1].info.original_size # ret.list[3].info.original_size

-----------------------------------------------------------------------------
(* C10 *)

IsCompressFile == call.op = "compress_pdf"

\* C10: compress_pdf on an existing input of 0 bytes returns a statistic whose
\* reduction_percent is 0, and does not fail.
C10_ZeroSizeReportsZero ==
    (/\ IsCompressFile /\ Finished
     /\ Resolve(call.files[1]) \in DOMAIN fs0
     /\ fs0[Resolve(call.files[1])].size = 0) =>
        /\ ret.ok
        /\ ret.info.has
        /\ ret.info.reduction_percent = 0

-----------------------------------------------------------------------------
(* C11 *)

\* the call could not resolve its inputs: the folder or the file was not there,
\* the folder held no PDF to take, or a listed path was missing
ResolutionFails ==
    \/ IsFolderMerge /\ (call.folder \notin Dirs0 \/ Remaining0 = {})
    \/ IsListMerge /\ Missing0 # <<>>
    \/ IsCompressFile /\ Resolve(call.files[1]) \notin DOMAIN fs0
    \/ IsCompressFolder /\ (call.folder \notin Dirs0 \/ PdfNames0(call.folder) = {})

\* C11: whichever function is called, when it cannot resolve its inputs it
\* returns failure with the file system as it found it: no file was created or
\* written and no folder was created.
C11_ResolutionFailureLeavesNoTrace ==
    (ResolutionFails /\ pc # "call") =>
        /\ Finished
        /\ ~ret.ok
        /\ fs = fs0
        /\ dirs = Dirs0

-----------------------------------------------------------------------------
(* C12 *)

\* C12: when the function a command ran has failed, the process exits with a
\* non-zero status, whichever command it was: a merge (of the default folder,
\* with an output name, of a given folder), the compression of a file or the
\* compression of a folder.
C12_FailureExitsNonZero ==
    (pc = "exited" /\ ~ret.ok) => exit_code # 0

-----------------------------------------------------------------------------
(* C16 *)

\* C16: a folder merge called with exclude_output never takes as an input the
\* file that lies at the path it writes its output to, in whatever form the
\* output filename is given: as a bare name or as an absolute path into the
\* input folder.
C16_OutputFileNeverMerged ==
    (IsFolderMerge /\ call.exclude) => ~InList(MergeOutputPath, merger.inputs)

-----------------------------------------------------------------------------
(* C15 *)

IsMainPyMerge == call.op = "merge_pdfs"

\* the function has listed its folder
HasScanned ==
    /\ pc # "call"
    /\ call.folder \in Dirs0
    /\ IsCompressFolder =>
           CompressOutputFolder(call.folder, call.output, call.out_given) \in dirs

\* C15: each function that scans a folder (merge_pdfs_by_order, compress_folder,
\* merge_pdfs of main.py) takes exactly the entries whose name ends in ".pdf"
\* whatever the case of the letters (merge_pdfs_by_order less the output name it
\* excludes), so an entry "2.PDF" is taken by each of them.
C15_ScannersIgnoreCase ==
    ((IsFolderMerge \/ IsCompressFolder \/ IsMainPyMerge) /\ HasScanned) =>
        Elems(pdf_files) = IF IsFolderMerge THEN Remaining0 ELSE PdfNames0(call.folder)

-----------------------------------------------------------------------------
(* C13 *)

\* finished is emitted once by the run of w, and handled once by the window
ReportsOnce(w) ==
    /\ Len(w.signals) =< 1
    /\ w.state = "done" => Len(w.signals) = 1
    /\ w.handled =< 1
    /\ ~InFlight(w) => w.handled = 1

\* C13: every run of a MergeWorker or of a CompressionWorker emits finished
\* exactly once, whether the call it wraps returned True, returned False or
\* raised: never more than once, and once when run has returned; the window's
\* handler is called for it at most once, and once when nothing is queued any more.
C13_OneNotificationPerRun ==
    /\ \A i \in 1..Len(merge_workers) : ReportsOnce(merge_workers[i])
    /\ \A i \in 1..Len(compress_workers) : ReportsOnce(compress_workers[i])

\* a merge worker whose call raised has emitted one signal and it was handled
\* once, while a compression worker's one signal is still queued
C13_Witness ==
    /\ HasWorker /\ HasCompressWorker
    /\ worker.state = "done"
    /\ worker.signals = <<[success |-> FALSE, message |-> "Error"]>>
    /\ worker.handled = 1
    /\ compress_worker.state = "done"
    /\ Len(compress_worker.signals) = 1
    /\ compress_worker.handled = 0

-----------------------------------------------------------------------------
(* C14 *)

\* the thread of w is inside run
Running(w) == w.state = "started"

\* the file a merge worker writes: line 65-68 for a folder, line 120 for a list
MergeWorkerOutput(w) ==
    IF w.merge_mode = "folder" THEN FolderOutputPath(w.pdf_files, w.output_filename)
    ELSE Resolve(w.output_filename)

\* the files a compression worker writes: one (lines 155-158), or one for each
\* PDF of its folder (lines 226-235, 251)
CompressionWorkerOutputs(w) ==
    IF w.compress_mode = "file"
    THEN {CompressOutputPath(w.input_path, w.output_path, w.output_path # <<>>)}
    ELSE {Join(CompressOutputFolder(w.input_path, w.output_path, w.output_path # <<>>), n)
          : n \in {m \in DirEntries(w.input_path) : IsPdfName(m)}}

\* C14: no two workers are running at the same time with the same output file:
\* not a merge worker and a compression worker, and not two workers of one kind.
C14_OneOperationPerOutputPath ==
    /\ \A i \in 1..Len(merge_workers) : \A j \in 1..Len(compress_workers) :
           (Running(merge_workers[i]) /\ Running(compress_workers[j])) =>
               MergeWorkerOutput(merge_workers[i])
                   \notin CompressionWorkerOutputs(compress_workers[j])
    /\ \A i, j \in 1..Len(merge_workers) :
           (i # j /\ Running(merge_workers[i]) /\ Running(merge_workers[j])) =>
               MergeWorkerOutput(merge_workers[i]) # MergeWorkerOutput(merge_workers[j])
    /\ \A i, j \in 1..Len(compress_workers) :
           (i # j /\ Running(compress_workers[i]) /\ Running(compress_workers[j])) =>
               CompressionWorkerOutputs(compress_workers[i])
                   \cap CompressionWorkerOutputs(compress_workers[j]) = {}

-----------------------------------------------------------------------------
(* C17 *)

\* the workers of a list that are in flight
WorkersInFlight(workers) == SelectSeq(workers, InFlight)

\* C17: at most one MergeWorker and at most one CompressionWorker is in flight
\* (started, its finished signal not yet handled) at any time; while one is, the
\* button of its tab is disabled, and the object stored in self.worker or
\* self.compress_worker is never replaced by a second one: no worker object but
\* the stored one is alive.
C17_OneWorkerOfAKind ==
    /\ Len(WorkersInFlight(merge_workers)) =< 1
    /\ WorkersInFlight(merge_workers) # <<>> => ~merge_btn
    /\ Len(merge_workers) =< 1
    /\ Len(WorkersInFlight(compress_workers)) =< 1
    /\ WorkersInFlight(compress_workers) # <<>> => ~compress_btn
    /\ Len(compress_workers) =< 1

\* a merge worker has returned from run and its signal is queued, a compression
\* worker is running, and both buttons are disabled
C17_Witness ==
    /\ HasWorker /\ HasCompressWorker
    /\ worker.state = "done" /\ worker.handled = 0
    /\ compress_worker.state = "started"
    /\ ~merge_btn /\ ~compress_btn

-----------------------------------------------------------------------------
(* C18 *)

\* the merge worker last started has been reported: its handler has run, the
\* progress bar is hidden and the button enabled
MergeReported ==
    /\ HasWorker
    /\ worker.state = "done"
    /\ worker.handled = 1
    /\ ~progress_bar
    /\ merge_btn

\* likewise on the compress tab
CompressReported ==
    /\ HasCompressWorker
    /\ compress_worker.state = "done"
    /\ compress_worker.handled = 1
    /\ ~compress_progress_bar
    /\ compress_btn

\* C18: when the worker threads get to run, the calls they wrap end and the event
\* loop delivers the queued signals, every worker that start_merge_worker or
\* start_compress_worker has started is eventually reported: its completion
\* handler has run, the progress bar of its tab is hidden and the button of its
\* tab is enabled again, whether the call returned True, returned False or raised.
C18_StartedIsReported ==
    /\ (HasWorker /\ InFlight(worker)) ~> MergeReported
    /\ (HasCompressWorker /\ InFlight(compress_worker)) ~> CompressReported

\* a merge whose call raised and a compression that returned False have both
\* been reported
C18_Witness ==
    /\ MergeReported
    /\ worker.signals[1].message = "Error"
    /\ CompressReported
    /\ compress_worker.signals[1].message = "Failed to compress folder"

=============================================================================
